---- MODULE Spec2Model ----
(***************************************************************************)
(* Real-time session orchestrator of SpeakFluent-Ai:                       *)
(*   backend/app/websocket/manager.py   ConnectionManager (registry,       *)
(*                                      broadcast fan-out, direct send)    *)
(*   backend/app/websocket/handler.py   websocket_meeting (lifecycle,      *)
(*                                      receive loop, utterance pipeline)  *)
(*   backend/app/services/*.py          transcribe / translate / tts       *)
(*   backend/app/services/room_service.py  join_room, leave_room,          *)
(*                                      end_room (RoomParticipant rows)    *)
(*                                                                         *)
(* Every handler is one asyncio task on a single event loop.  A task runs  *)
(* without interruption from one suspension point to the next; an action   *)
(* of this module is one such uninterrupted segment.  Suspension points    *)
(* are the awaits that really yield: DB calls, websocket accept / receive  *)
(* / send_json, and edge-tts' save.  transcribe_audio and translate_text   *)
(* are "async def" but contain no await: they run Whisper / the HTTP       *)
(* translator synchronously on the event-loop thread; while such a call is *)
(* in progress the variable "blocking" names its task and no other task    *)
(* can take a step.                                                        *)
(*                                                                         *)
(* Participant (manager.py:17-23) is a @dataclass with the default eq=True *)
(* and neither frozen nor unsafe_hash, so its __hash__ is None and         *)
(* set.add(participant) at manager.py:54 raises TypeError: with the class  *)
(* as declared no session is ever registered.  The variable "hashable",    *)
(* fixed in Init, tells the two programs apart: FALSE is the class as      *)
(* declared, TRUE a Participant that hashes by identity, the one under     *)
(* which the registry can hold a session at all.                           *)
(***************************************************************************)
EXTENDS Integers, Sequences, FiniteSets, Bags, TLC

\* ------------------------------------------------------------------ bounds
MaxInputs == 4     \* what the outside does in one run: connection attempts,
                   \* frames sent, clients going away, and collaborator
                   \* results other than the expected one

\* ------------------------------------------------------- program constants
MinAudioBytes       == 100   \* handler.py:164  len(audio_bytes) < 100
ConfidenceThreshold == 500   \* handler.py:185  confidence > 0.5, in 1/1000
AuthFailedCode      == 4001  \* handler.py:115
RoomInvalidCode     == 4002  \* handler.py:128

Conn      == {1, 2, 3}   \* handler tasks, numbered as their attempts arrive
RoomCodes == {"A", "B"}
Modes     == {"hi_to_en", "en_to_hi"}            \* models.py LanguageMode
NoConn    == 0           \* manager.py:96  exclude = None: no participant

\* user.id of the authenticated user behind each connection attempt; the
\* last attempt is a second connection of the user of the first.
UserOf(c) == IF c = 3 THEN 1 ELSE c

VARIABLES
  rooms,          \* manager._rooms : room_code -> set of Participant
  pc,             \* position of each handler task
  up,             \* up[c]: the client side of c's websocket is still there
  room_code,      \* path parameter of each connection attempt
  language_mode,  \* handler local language_mode / participant.language_mode
  cur,            \* locals of the utterance a handler is working on
  bc,             \* state of the broadcast_json call a task is suspended in
  inbox,          \* bag of the events delivered to each client
  closeCode,      \* code of websocket.close() issued by the handler, or 0
  blocking,       \* task inside a synchronous call on the loop, or NoConn
  inputs,         \* inputs from outside so far
  fn_in, fn_out,  \* argument / result of the language-resolution check
  hashable,       \* Participant objects can be members of a set
  unit,           \* history: the last connection attempt or frame that
                  \* arrived, and what Whisper made of the frame
  ended,          \* room codes whose Room row has status ENDED
  room_participants  \* RoomParticipant rows: room -> user -> "none" (no
                  \* row), "active" or "inactive" (is_active)

vars == <<rooms, pc, up, room_code, language_mode, cur, bc, inbox,
          closeCode, blocking, inputs, fn_in, fn_out, hashable, unit,
          ended, room_participants>>

\* -------------------------------------------------------------- payloads
NoEvent ==
  [type |-> "-", conn |-> 0, user_id |-> 0, uid |-> 0, participants |-> {},
   language_mode |-> "-", original_text |-> "", translated_text |-> "",
   source_language |-> "-", target_language |-> "-", audio_url |-> "",
   confidence |-> 0, via |-> "-"]

\* A JSON event built by task c.  "conn" and "uid" identify the payload
\* object (who built it, for which utterance); "via" records whether a copy
\* was delivered by broadcast_json or by send_to_participant.
Event(type, c, roster, mode) ==
  [NoEvent EXCEPT !.type = type, !.conn = c, !.user_id = UserOf(c),
                  !.participants = roster, !.language_mode = mode]

NoCur ==
  [uid |-> 0, rmode |-> "-", original_text |-> "", detected_lang |-> "-",
   confidence |-> 0, translated_text |-> "", src |-> "-", tgt |-> "-",
   audio_url |-> "", translate_outcome |-> "-", tts_text |-> "-",
   tts_lang |-> "-", tts_outcome |-> "-"]

IdleIter ==
  [active |-> FALSE, room |-> "-", ev |-> NoEvent, exclude |-> NoConn,
   start |-> {}, visited |-> {}, n |-> 0, disconnected |-> {},
   stale |-> FALSE, ctx |-> "-"]

\* The part of the state the manager and the handler's send paths work on.
World ==
  [rooms |-> rooms, pc |-> pc, cur |-> cur, bc |-> bc, inbox |-> inbox,
   language_mode |-> language_mode]

Commit(w) ==
  /\ rooms' = w.rooms
  /\ pc' = w.pc
  /\ cur' = w.cur
  /\ bc' = w.bc
  /\ inbox' = w.inbox
  /\ language_mode' = w.language_mode

\* ------------------------------------------------- manager.py: registry
\* manager.py:121-133
get_participant_list(regs, r) ==
  IF r \notin DOMAIN regs THEN {} ELSE regs[r]

\* manager.py:51-52
ensure_room(regs, r) ==
  IF r \in DOMAIN regs THEN regs
  ELSE [x \in DOMAIN regs \cup {r} |-> IF x = r THEN {} ELSE regs[x]]

\* manager.py:51-54 if the participant were also added to a lobby set "A"
register_with_lobby(regs, r, p) ==
  [ensure_room(ensure_room(regs, r), "A") EXCEPT
     ![r] = @ \cup {p}, !["A"] = @ \cup {p}]

\* manager.py:51-54, for a participant that can be hashed
register(regs, r, p) == [ensure_room(regs, r) EXCEPT ![r] = @ \cup {p}]

\* manager.py:79-84.  Deleting the key drops the set object; a broadcast
\* still iterating over that (now empty) object is marked stale.
disconnect(w, r, p) ==
  IF r \notin DOMAIN w.rooms THEN w
  ELSE IF w.rooms[r] \ {p} # {}
    THEN [w EXCEPT !.rooms[r] = @ \ {p}]
    ELSE [w EXCEPT
            !.rooms = [x \in DOMAIN w.rooms \ {r} |-> w.rooms[x]],
            !.bc = [d \in Conn |->
                      IF w.bc[d].active /\ w.bc[d].room = r
                        THEN [w.bc[d] EXCEPT !.stale = TRUE]
                        ELSE w.bc[d]]]

\* manager.py:135-141
get_room_count(regs) == Cardinality(DOMAIN regs)

\* ----------------------------------------------- manager.py: sending
\* websocket.send_json succeeds while the client is there and the server
\* has not closed the socket (which it does when the handler task ends).
SendOK(w, p) == up[p] /\ w.pc[p] \notin {"closed", "crashed", "done"}

send_json(w, p, ev, via) ==
  IF SendOK(w, p)
    THEN [w EXCEPT !.inbox[p] = @ (+) SetToBag({[ev EXCEPT !.via = via]})]
    ELSE w

\* manager.py:114-119 if a failed send also discarded the participant
send_to_participant_pruning(w, p, ev) ==
  IF SendOK(w, p) THEN send_json(w, p, ev, "direct")
  ELSE disconnect(w, room_code[p], p)

\* manager.py:114-119: a failure is logged, nothing else happens
send_to_participant(w, p, ev) == send_json(w, p, ev, "direct")

\* ------------------------------- manager.py:92-112: broadcast_json
\* Iteration over the live set object.  set's iterator raises RuntimeError
\* ("Set changed size during iteration") on the next step once the size
\* differs from the size at the start.  If the size is the same again (one
\* member left, one joined) the iteration goes on: members present since the
\* start are still visited, members added meanwhile may or may not be.
NewIter(w, r, ev, excl, ctx) ==
  [active |-> TRUE, room |-> r, ev |-> ev, exclude |-> excl,
   start |-> w.rooms[r], visited |-> {}, n |-> Cardinality(w.rooms[r]),
   disconnected |-> {}, stale |-> FALSE, ctx |-> ctx]

SetChanged(w, it) ==
  \/ it.stale
  \/ it.room \notin DOMAIN w.rooms
  \/ Cardinality(w.rooms[it.room]) # it.n

\* manager.py:104-105: the excluded participant is passed over
Pending(w, it) ==
  ((it.start \ it.visited) \cap w.rooms[it.room]) \ {it.exclude}

Optional(w, it) ==
  ((w.rooms[it.room] \ it.start) \ it.visited) \ {it.exclude}

\* what the next step of the for loop can be: 0 = the loop ends or raises
NextChoices(w, it) ==
  IF SetChanged(w, it) THEN {NoConn}
  ELSE Pending(w, it) \cup Optional(w, it)
         \cup (IF Pending(w, it) = {} THEN {NoConn} ELSE {})

\* One step of the loop of task c, up to the next await.  The result has
\* pc[c] = "susp" (suspended in send_json), "ret" or "exc".
iter_step(w, c, p) ==
  LET it == w.bc[c] IN
  IF SetChanged(w, it)
    THEN [w EXCEPT !.bc[c] = IdleIter, !.pc[c] = "exc"]
  ELSE IF p = NoConn
    THEN \* manager.py:111-112: prune; the key stays even if the set empties
         [w EXCEPT !.rooms[it.room] = @ \ it.disconnected,
                   !.bc[c] = IdleIter, !.pc[c] = "ret"]
  ELSE IF SendOK(w, p)
    THEN [send_json(w, p, it.ev, "bcast") EXCEPT
            !.bc[c].visited = @ \cup {p}, !.pc[c] = "susp"]
    ELSE [w EXCEPT !.bc[c].visited = @ \cup {p},
                   !.bc[c].disconnected = @ \cup {p}, !.pc[c] = "susp"]

\* broadcast_json called by task c: manager.py:99-100, then the first step
broadcast_json(w, c, r, ev, excl, ctx, p) ==
  IF r \notin DOMAIN w.rooms
    THEN [w EXCEPT !.pc[c] = "ret"]
    ELSE iter_step([w EXCEPT !.bc[c] = NewIter(w, r, ev, excl, ctx)], c, p)

FirstChoices(w, r, excl) ==
  IF r \notin DOMAIN w.rooms \/ w.rooms[r] \ {excl} = {}
    THEN {NoConn} ELSE w.rooms[r] \ {excl}

\* ------------------------------------------------ services (pure parts)
Langs == {"hi", "en", "fr"}     \* Whisper may report any language code

\* transcription.py:34-94.  out is what Whisper did: failed, or a result
\* with raw text, language and the confidence heuristic in 1/1000.
Strip(t) == IF t = " " THEN "" ELSE t

\* transcription.py:92-94 returning a placeholder text, not the empty one
transcribe_audio_placeholder(out) ==
  IF out.failed
    THEN [text |-> "hello", language |-> "en", confidence |-> 0]
    ELSE [text |-> Strip(out.text), language |-> out.language,
          confidence |-> out.confidence]

transcribe_audio(out) ==
  IF out.failed
    THEN [text |-> "", language |-> "en", confidence |-> 0]
    ELSE [text |-> Strip(out.text), language |-> out.language,
          confidence |-> out.confidence]

\* handler.py:177-182
mode_source_lang(mode) == IF mode = "hi_to_en" THEN "hi" ELSE "en"

mode_target_lang(mode) == IF mode = "hi_to_en" THEN "en" ELSE "hi"

\* the override of handler.py:185 written with ">=" instead of ">"
handler_source_lang_inclusive(mode, detected, confidence) ==
  IF confidence >= ConfidenceThreshold THEN detected
  ELSE mode_source_lang(mode)

\* handler.py:184-186
handler_source_lang(mode, detected, confidence) ==
  IF confidence > ConfidenceThreshold THEN detected
  ELSE mode_source_lang(mode)

\* translate_text without the flip of translation.py:58-59: the target is
\* used as the caller gave it
translate_target_lang_as_given(source_lang, target_lang) == target_lang

\* translation.py:57-59
translate_target_lang(source_lang, target_lang) ==
  IF source_lang = target_lang
    THEN (IF source_lang = "hi" THEN "en" ELSE "hi")
    ELSE target_lang

\* what the Google translator gives for a text
Translated(text, tgt) ==
  IF tgt = "hi" THEN "hello_hi" ELSE IF tgt = "en" THEN "hello_en"
  ELSE "hello_xx"

\* translate_text without the fallbacks of translation.py:71-72 and 83-85:
\* a translator that gives nothing leaves the result empty
translate_text_no_fallback(text, source_lang, target_lang, outcome) ==
  IF Strip(text) = ""
    THEN [translated |-> "", src |-> source_lang, tgt |-> target_lang]
  ELSE LET tgt == translate_target_lang(source_lang, target_lang) IN
    [translated |-> IF outcome = "ok" THEN Translated(text, tgt) ELSE "",
     src |-> source_lang, tgt |-> tgt]

\* translation.py:34-85.  outcome is what the translator did: "ok" (it
\* returned a text), "none" (it returned None) or "raise".
translate_text(text, source_lang, target_lang, outcome) ==
  IF Strip(text) = ""
    THEN [translated |-> "", src |-> source_lang, tgt |-> target_lang]
  ELSE LET tgt == translate_target_lang(source_lang, target_lang) IN
    [translated |-> CASE outcome = "ok"    -> Translated(text, tgt)
                      [] outcome = "none"  -> text
                      [] outcome = "raise" -> text,
     src |-> source_lang, tgt |-> tgt]

\* tts.py:38-39: no synthesis call for empty text
tts_skips(text) == Strip(text) = ""

\* synthesize_speech returning the file's URL without regard to whether
\* edge-tts wrote the file (no except branch at tts.py:53-55)
synthesize_speech_unchecked(text, language, outcome) ==
  IF tts_skips(text) THEN "" ELSE "/static/audio/x.mp3"

\* tts.py:41-55
synthesize_speech(text, language, outcome) ==
  IF tts_skips(text) THEN ""
  ELSE IF outcome = "ok" THEN "/static/audio/x.mp3" ELSE ""

\* handler.py:176-193 and translation.py:57-59 together: the languages of
\* the delivered result
resolve_languages(mode, detected, confidence) ==
  LET s == handler_source_lang(mode, detected, confidence) IN
  [src |-> s, tgt |-> translate_target_lang(s, mode_target_lang(mode))]

\* --------------------------------------------- handler.py: send paths
\* handler.py:199-209 for a handler that tags its results in reverse order
\* of receipt
result_data_reversed(w, c) ==
  [Event("translation_result", c, {}, "-") EXCEPT
     !.uid = MaxInputs + 1 - w.cur[c].uid,
     !.original_text = w.cur[c].original_text,
     !.translated_text = w.cur[c].translated_text,
     !.source_language = w.cur[c].src,
     !.target_language = w.cur[c].tgt,
     !.audio_url = w.cur[c].audio_url,
     !.confidence = w.cur[c].confidence]

\* handler.py:199-209
result_data(w, c) ==
  [Event("translation_result", c, {}, "-") EXCEPT
     !.uid = w.cur[c].uid,
     !.original_text = w.cur[c].original_text,
     !.translated_text = w.cur[c].translated_text,
     !.source_language = w.cur[c].src,
     !.target_language = w.cur[c].tgt,
     !.audio_url = w.cur[c].audio_url,
     !.confidence = w.cur[c].confidence]

\* handler.py:144-154, reached when connect()'s broadcast returns; if it
\* raises, the exception leaves websocket_meeting before its try block.
after_join(w, c) ==
  CASE w.pc[c] = "susp" -> [w EXCEPT !.pc[c] = "bc_join"]
    [] w.pc[c] = "ret" ->
         [send_to_participant(w, c,
            Event("connection_established", c,
                  get_participant_list(w.rooms, room_code[c]),
                  w.language_mode[c]))
          EXCEPT !.pc[c] = "recv"]
    [] w.pc[c] = "exc" -> [w EXCEPT !.pc[c] = "crashed"]

\* handler.py:264-272: the user_left broadcast ends the handler either way
after_left(w, c) ==
  CASE w.pc[c] = "susp" -> [w EXCEPT !.pc[c] = "bc_left"]
    [] OTHER -> [w EXCEPT !.pc[c] = "done"]

\* handler.py:260-272: the finally block
teardown(w, c, q) ==
  LET r  == room_code[c]
      w1 == disconnect(w, r, c)
      w2 == [w1 EXCEPT !.cur[c] = NoCur, !.bc[c] = IdleIter]
      ev == Event("user_left", c, get_participant_list(w2.rooms, r), "-")
  IN after_left(broadcast_json(w2, c, r, ev, NoConn, "left", q), c)

TeardownChoices(w, c) ==
  FirstChoices(disconnect(w, room_code[c], c), room_code[c], NoConn)

\* the except branch of handler.py:256-259 without the finally block after
\* it: the handler logs and returns
on_loop_error_no_finally(w, c, q) ==
  [w EXCEPT !.pc[c] = "done", !.cur[c] = NoCur, !.bc[c] = IdleIter]

\* handler.py:256-259: an exception in the loop body is logged, then finally
on_loop_error(w, c, q) == teardown(w, c, q)

\* handler.py:211-214, after the result broadcast
after_result(w, c, q) ==
  CASE w.pc[c] = "susp" -> [w EXCEPT !.pc[c] = "bc_result"]
    [] w.pc[c] = "ret" ->
         [send_to_participant(w, c, result_data(w, c))
          EXCEPT !.pc[c] = "saving"]
    [] w.pc[c] = "exc" -> on_loop_error(w, c, q)

\* handler.py:195-214: synthesis has returned audio_url
deliver(w, c, audio_url, outcome, p, q) ==
  LET w1 == [w EXCEPT !.cur[c].audio_url = audio_url,
                      !.cur[c].tts_outcome = outcome]
  IN after_result(
       broadcast_json(w1, c, room_code[c], result_data(w1, c), NoConn,
                      "result", p), c, q)

\* a suspended broadcast_json of task c goes on
resume_broadcast(w, c, p, q) ==
  LET ctx == w.bc[c].ctx
      w1  == iter_step(w, c, p)
  IN CASE ctx = "join"   -> after_join(w1, c)
       [] ctx = "result" -> after_result(w1, c, q)
       [] ctx = "left"   -> after_left(w1, c)

\* ------------------------------------------------------ inputs drawn
FrameLens == {MinAudioBytes - 1, MinAudioBytes}

ModeArgs == Modes \cup {"bogus", "missing"}

\* a text frame: json.loads fails, gives a non-object, or gives an object
TextFrames ==
  {[parse |-> "error", type |-> "-", mode |-> "-"],
   [parse |-> "array", type |-> "-", mode |-> "-"]}
  \cup [parse : {"object"}, type : {"change_mode"}, mode : ModeArgs]
  \cup [parse : {"object"}, type : {"ping", "other"}, mode : {"-"}]

ConfLevels == {ConfidenceThreshold, 900}

TranscribeOutcomes ==
  {[failed |-> TRUE, text |-> "", language |-> "en", confidence |-> 0],
   [failed |-> FALSE, text |-> " ", language |-> "en", confidence |-> 900]}
  \cup [failed : {FALSE}, text : {"hello"}, language : Langs,
        confidence : ConfLevels]

TranslateOutcomes == {"ok", "none", "raise"}

TtsOutcomes == {"ok", "fail"}

SaveOutcomes == {"ok", "fail"}

\* an outcome other than the expected one counts as an input of the run
Cost(outcome, expected) == IF outcome = expected THEN 0 ELSE 1

\* what the token of a connection attempt resolves to (handler.py:33-44):
\* nothing, a subject without a user row, a user row with is_active false,
\* or an active user
Creds == {"ok", "bad_token", "no_user", "inactive"}

NoMsg == [parse |-> "-", type |-> "-", mode |-> "-"]

NoOut == [failed |-> FALSE, text |-> "-", language |-> "-", confidence |-> 0]

\* no unit has arrived yet
NoUnit ==
  [n |-> 0, conn |-> NoConn, kind |-> "-", len |-> 0, msg |-> NoMsg,
   cred |-> "-", room_active |-> FALSE, out |-> NoOut, room |-> "-",
   user |-> 0]

NoArgs == [mode |-> "-", detected |-> "-", confidence |-> 0]

NoResolved == [src |-> "-", tgt |-> "-"]

\* ------------------------------------------- room_service.py: membership
MaxParticipants == 2     \* schemas/room.py:15  ge=2: the smallest limit a
                         \* room can be created with

Users == {0, 1, 2}       \* user ids; 0 owns the rooms

\* room_service.py:29-58 (create_room) for every room code: the owner has
\* the only row and it is active
created_rooms ==
  [r \in RoomCodes |-> [u \in Users |-> IF u = 0 THEN "active" ELSE "none"]]

\* room_service.py:91-97 and api/rooms.py:153: rows with is_active true
active_count(rp, r) == Cardinality({u \in Users : rp[r][u] = "active"})

\* room_service.py:62-112 (join_room): the rows after the request; they
\* are as before when the function returns None
join_room(rp, user, r, room_active) ==
  IF ~room_active THEN rp                                    \* 69-76
  ELSE IF rp[r][user] # "none"
    THEN [rp EXCEPT ![r][user] = "active"]                   \* 87-89
  ELSE IF active_count(rp, r) >= MaxParticipants THEN rp     \* 91-100
  ELSE [rp EXCEPT ![r][user] = "active"]                     \* 102-108

\* room_service.py:138-155 (leave_room): the room is looked up whatever its
\* status
leave_room(rp, user, r) ==
  IF rp[r][user] # "none" THEN [rp EXCEPT ![r][user] = "inactive"] ELSE rp

\* ----------------------------------------------------------------- Init
Init ==
  /\ rooms = <<>>
  /\ pc = [c \in Conn |-> "idle"]
  /\ up = [c \in Conn |-> TRUE]
  /\ room_code = [c \in Conn |-> "-"]
  /\ language_mode = [c \in Conn |-> "-"]
  /\ cur = [c \in Conn |-> NoCur]
  /\ bc = [c \in Conn |-> IdleIter]
  /\ inbox = [c \in Conn |-> EmptyBag]
  /\ closeCode = [c \in Conn |-> 0]
  /\ blocking = NoConn
  /\ inputs = 0
  /\ fn_in = NoArgs
  /\ fn_out = NoResolved
  /\ hashable \in BOOLEAN
  /\ unit = NoUnit
  /\ ended = {}
  /\ room_participants = created_rooms

\* --------------------------------------------- handler.py: the handler
\* handler.py:31-44: the user row for the token's subject, if any
\* handler.py:31-44 without the checks of 33-39 on the token
authenticate_ws_any_token(token_ok, user_exists) == user_exists

authenticate_ws(token_ok, user_exists) == token_ok /\ user_exists

\* handler.py:47-61: the persisted mode, "hi_to_en" without a membership
get_participant_mode(stored) == IF stored = "none" THEN "hi_to_en" ELSE stored

\* handler.py:119-126: is there a Room row with this code and status
\* ACTIVE?  Never for an ended room; for another code the row may or may
\* not exist.
\* a lookup that does not filter on the room's status
room_lookup_any_status(r) == BOOLEAN

\* handler.py:119-126 and room_service.py:69-76: the select with status
\* ACTIVE finds no ended room; another code may or may not name a room
room_lookup(r) == IF r \in ended THEN {FALSE} ELSE BOOLEAN

\* handler.py:112-132: a connection attempt for room r arrives; the user is
\* looked up, then the room, then the mode.  None of the three reads touches
\* state another task writes, so they are one step.
Open(c) ==
  /\ pc[c] = "idle"
  /\ IF c = 1 THEN TRUE ELSE pc[c - 1] # "idle"
  /\ blocking = NoConn
  /\ \E r \in RoomCodes, cred \in Creds, stored \in Modes \cup {"none"} :
     \E room_active \in room_lookup(r) :
       /\ inputs + 1 + Cost(stored, "none") <= MaxInputs
       /\ inputs' = inputs + 1 + Cost(stored, "none")
       /\ room_code' = [room_code EXCEPT ![c] = r]
       /\ unit' = [NoUnit EXCEPT !.n = inputs + 1, !.conn = c,
                                 !.kind = "open", !.cred = cred,
                                 !.room_active = room_active]
       /\ IF ~authenticate_ws(cred # "bad_token", cred # "no_user")
            THEN /\ pc' = [pc EXCEPT ![c] = "closed"]
                 /\ closeCode' = [closeCode EXCEPT ![c] = AuthFailedCode]
                 /\ UNCHANGED language_mode
          ELSE IF ~room_active
            THEN /\ pc' = [pc EXCEPT ![c] = "closed"]
                 /\ closeCode' = [closeCode EXCEPT ![c] = RoomInvalidCode]
                 /\ UNCHANGED language_mode
          ELSE /\ pc' = [pc EXCEPT ![c] = "connect"]
               /\ language_mode' =
                    [language_mode EXCEPT ![c] = get_participant_mode(stored)]
               /\ UNCHANGED closeCode
  /\ UNCHANGED <<rooms, up, cur, bc, inbox, blocking, fn_in, fn_out, hashable,
                 ended, room_participants>>

\* manager.py:51-54 for a participant that cannot be hashed: the room's
\* key is made, set.add raises TypeError, and the exception leaves connect
\* and websocket_meeting (handler.py:135 is before the try block)
connect_unhashable(w, c) ==
  [w EXCEPT !.rooms = ensure_room(w.rooms, room_code[c]),
            !.pc[c] = "crashed"]

\* manager.py:33-77 (connect), called at handler.py:135
Connect(c) ==
  /\ pc[c] = "connect"
  /\ blocking = NoConn
  /\ LET r  == room_code[c]
         w1 == [World EXCEPT !.rooms = register(rooms, r, c)]
         ev == Event("user_joined", c, get_participant_list(w1.rooms, r),
                     language_mode[c])
     IN IF hashable
          THEN \E p \in FirstChoices(w1, r, c) :
                 Commit(after_join(
                          broadcast_json(w1, c, r, ev, c, "join", p), c))
          ELSE Commit(connect_unhashable(World, c))
  /\ UNCHANGED <<up, room_code, closeCode, blocking, inputs, fn_in, fn_out,
                 hashable, unit,
                 ended, room_participants>>

\* the test of handler.py:239 letting every value through
legal_mode_any(new_mode) == TRUE

\* handler.py:239
legal_mode(new_mode) == new_mode \in Modes

\* handler.py:228-254: a text frame, the n-th input
handle_text(w, c, m, n, q) ==
  IF m.parse = "error" THEN w                        \* 232-233: continue
  ELSE IF m.parse = "array" THEN on_loop_error(w, c, q)  \* 235: data.get
  ELSE IF m.type = "change_mode"
    THEN LET new_mode == IF m.mode = "missing" THEN w.language_mode[c]
                         ELSE m.mode
         IN IF legal_mode(new_mode)
              THEN send_to_participant(
                     [w EXCEPT !.language_mode[c] = new_mode], c,
                     [Event("mode_changed", c, {}, new_mode)
                        EXCEPT !.uid = n])
              ELSE w
  ELSE IF m.type = "ping"
    THEN send_to_participant(w, c,
           [Event("pong", c, {}, "-") EXCEPT !.uid = n])
  ELSE w

\* handler.py:159: the transport has gone; the loop is left by an exception
ReceiveDisconnect(c) ==
  /\ pc[c] = "recv"
  /\ blocking = NoConn
  /\ ~up[c]
  /\ \E q \in TeardownChoices(World, c) : Commit(teardown(World, c, q))
  /\ UNCHANGED <<up, room_code, closeCode, blocking, inputs, fn_in, fn_out,
                 hashable, unit,
                 ended, room_participants>>

\* the size filter of handler.py:164 written with "<=" instead of "<"
too_short_inclusive(len) == len <= MinAudioBytes

\* handler.py:164
too_short(len) == len < MinAudioBytes

\* handler.py:163-168 handing on the frame before the one just received
new_utterance_previous(n, mode) ==
  [NoCur EXCEPT !.uid = n - 1, !.rmode = mode]

\* handler.py:163-168: the frame just received, the n-th input, is the
\* segment handed to transcribe_audio
new_utterance(n, mode) == [NoCur EXCEPT !.uid = n, !.rmode = mode]

\* a handler that runs each pipeline as a task of its own and is back at
\* websocket.receive while that task awaits
at_receive_or_awaiting(p) == p \in {"recv", "synthesizing", "saving"}

\* handler.py:157-159: the loop's only receive; it is reached when the
\* iteration before it is over
at_receive(p) == p = "recv"

\* handler.py:159-165: a binary frame; a long enough one enters
\* transcribe_audio, which runs Whisper on the event-loop thread
ReceiveBytes(c) ==
  /\ at_receive(pc[c])
  /\ blocking = NoConn
  /\ inputs < MaxInputs
  /\ inputs' = inputs + 1
  /\ \E len \in FrameLens :
       /\ unit' = [NoUnit EXCEPT !.n = inputs + 1, !.conn = c,
                                 !.kind = "bytes", !.len = len]
       /\ IF too_short(len)
            THEN UNCHANGED <<pc, cur, blocking>>
            ELSE /\ pc' = [pc EXCEPT ![c] = "transcribing"]
                 /\ cur' = [cur EXCEPT
                              ![c] = new_utterance(inputs + 1,
                                                   language_mode[c])]
                 /\ blocking' = c
  /\ UNCHANGED <<rooms, up, room_code, language_mode, bc, inbox, closeCode,
                 fn_in, fn_out, hashable,
                 ended, room_participants>>

\* handler.py:228-254.  As for a binary frame, the client may be gone by
\* now: frames it sent before it went are received before the disconnect.
ReceiveText(c) ==
  /\ at_receive(pc[c])
  /\ blocking = NoConn
  /\ inputs < MaxInputs
  /\ inputs' = inputs + 1
  /\ \E m \in TextFrames :
       /\ unit' = [NoUnit EXCEPT !.n = inputs + 1, !.conn = c,
                                 !.kind = "text", !.msg = m]
       /\ \E q \in (IF m.parse = "array" THEN TeardownChoices(World, c)
                    ELSE {NoConn}) :
            Commit(handle_text(World, c, m, inputs + 1, q))
  /\ UNCHANGED <<up, room_code, closeCode, blocking, fn_in, fn_out, hashable,
                 ended, room_participants>>

\* handler.py:167-193: transcribe_audio returns; empty text ends the unit,
\* otherwise the languages are resolved and translate_text is entered,
\* which calls the translator on the event-loop thread
TranscribeReturn(c) ==
  /\ pc[c] = "transcribing"
  /\ blocking = c
  /\ \E out \in TranscribeOutcomes :
       LET t == transcribe_audio(out)
           k == Cost(out, [failed |-> FALSE, text |-> "hello",
                           language |-> mode_source_lang(language_mode[c]),
                           confidence |-> 900])
       IN
       /\ inputs + k <= MaxInputs
       /\ inputs' = inputs + k
       /\ unit' = [unit EXCEPT !.out = out]
       /\ IF Strip(t.text) = ""
            THEN /\ pc' = [pc EXCEPT ![c] = "recv"]
                 /\ cur' = [cur EXCEPT ![c] = NoCur]
                 /\ blocking' = NoConn
            ELSE /\ pc' = [pc EXCEPT ![c] = "translating"]
                 /\ cur' = [cur EXCEPT
                      ![c].original_text = t.text,
                      ![c].detected_lang = t.language,
                      ![c].confidence = t.confidence,
                      ![c].src = handler_source_lang(language_mode[c],
                                   t.language, t.confidence),
                      ![c].tgt = mode_target_lang(language_mode[c])]
                 /\ UNCHANGED blocking
  /\ UNCHANGED <<rooms, up, room_code, language_mode, bc, inbox, closeCode,
                 fn_in, fn_out, hashable,
                 ended, room_participants>>

\* handler.py:188-196: translate_text returns and synthesize_speech is
\* entered, which awaits edge-tts (the text is not empty here)
TranslateReturn(c) ==
  /\ pc[c] = "translating"
  /\ blocking = c
  /\ blocking' = NoConn
  /\ \E outcome \in TranslateOutcomes :
       LET tr == translate_text(cur[c].original_text, cur[c].src,
                                cur[c].tgt, outcome)
           w1 == [World EXCEPT !.cur[c].translated_text = tr.translated,
                               !.cur[c].src = tr.src,
                               !.cur[c].tgt = tr.tgt,
                               !.cur[c].translate_outcome = outcome,
                               !.cur[c].tts_text = tr.translated,
                               !.cur[c].tts_lang = tr.tgt]
       IN /\ inputs + Cost(outcome, "ok") <= MaxInputs
          /\ inputs' = inputs + Cost(outcome, "ok")
          /\ Commit([w1 EXCEPT !.pc[c] = "synthesizing"])
  /\ UNCHANGED <<up, room_code, closeCode, fn_in, fn_out, hashable, unit,
                 ended, room_participants>>

\* handler.py:196-214: synthesize_speech returns, the result is built and
\* its broadcast starts
SynthReturn(c) ==
  /\ pc[c] = "synthesizing"
  /\ blocking = NoConn
  /\ \E outcome \in TtsOutcomes :
       /\ inputs + Cost(outcome, "ok") <= MaxInputs
       /\ inputs' = inputs + Cost(outcome, "ok")
       /\ \E p \in FirstChoices(World, room_code[c], NoConn) :
            Commit(deliver(World, c,
                     synthesize_speech(cur[c].tts_text, cur[c].tts_lang,
                                       outcome),
                     outcome, p, NoConn))
  /\ UNCHANGED <<up, room_code, closeCode, blocking, fn_in, fn_out, hashable,
                 unit,
                 ended, room_participants>>

\* manager.py:103-112: a broadcast suspended in send_json goes on
BroadcastNext(c) ==
  /\ pc[c] \in {"bc_join", "bc_result", "bc_left"}
  /\ blocking = NoConn
  /\ \E p \in NextChoices(World, bc[c]) :
       \E q \in (IF SetChanged(World, bc[c]) /\ bc[c].ctx = "result"
                   THEN TeardownChoices(World, c) ELSE {NoConn}) :
          Commit(resume_broadcast(World, c, p, q))
  /\ UNCHANGED <<up, room_code, closeCode, blocking, inputs, fn_in, fn_out,
                 hashable, unit,
                 ended, room_participants>>

\* handler.py:216-226: _save_message (64-94) returns or raises
save_returns(w, c, outcome, q) ==
  IF outcome = "ok"
    THEN [w EXCEPT !.pc[c] = "recv", !.cur[c] = NoCur]
    ELSE on_loop_error(w, c, q)

SaveReturn(c) ==
  /\ pc[c] = "saving"
  /\ blocking = NoConn
  /\ \E outcome \in SaveOutcomes :
       /\ inputs + Cost(outcome, "ok") <= MaxInputs
       /\ inputs' = inputs + Cost(outcome, "ok")
       /\ \E q \in (IF outcome = "ok" THEN {NoConn}
                    ELSE TeardownChoices(World, c)) :
            Commit(save_returns(World, c, outcome, q))
  /\ UNCHANGED <<up, room_code, closeCode, blocking, fn_in, fn_out, hashable,
                 unit,
                 ended, room_participants>>

\* the client goes away (closes, or the network fails).  While a task blocks
\* the loop nobody can notice, so the step is taken when the loop is free.
Drop(c) ==
  /\ up[c]
  /\ blocking = NoConn
  /\ pc[c] \in {"bc_join", "recv", "synthesizing", "bc_result", "saving"}
  /\ inputs < MaxInputs
  /\ inputs' = inputs + 1
  /\ up' = [up EXCEPT ![c] = FALSE]
  /\ UNCHANGED <<rooms, pc, room_code, language_mode, cur, bc, inbox,
                 closeCode, blocking, fn_in, fn_out, hashable, unit,
                 ended, room_participants>>

\* api/rooms.py:87-104 (join_existing_room): a join request of a user for
\* room r; the room is looked up with status ACTIVE as at handler.py:119
JoinRoom(user, r) ==
  /\ blocking = NoConn
  /\ inputs < MaxInputs
  /\ inputs' = inputs + 1
  /\ \E room_active \in room_lookup(r) :
       /\ unit' = [NoUnit EXCEPT !.n = inputs + 1, !.kind = "join",
                                 !.room = r, !.user = user,
                                 !.room_active = room_active]
       /\ room_participants' =
            join_room(room_participants, user, r, room_active)
  /\ UNCHANGED <<rooms, pc, up, room_code, language_mode, cur, bc, inbox,
                 closeCode, blocking, fn_in, fn_out, hashable, ended>>

\* api/rooms.py:162-175 (leave_existing_room)
LeaveRoom(user, r) ==
  /\ blocking = NoConn
  /\ inputs < MaxInputs
  /\ inputs' = inputs + 1
  /\ unit' = [NoUnit EXCEPT !.n = inputs + 1, !.kind = "leave",
                            !.room = r, !.user = user]
  /\ room_participants' = leave_room(room_participants, user, r)
  /\ UNCHANGED <<rooms, pc, up, room_code, language_mode, cur, bc, inbox,
                 closeCode, blocking, fn_in, fn_out, hashable, ended>>

\* room_service.py:158-165 (end_room), called by the owner's request at
\* api/rooms.py:180-199: the Room row gets status ENDED.  Nothing else is
\* done: the connection manager is not told.
EndRoom(r) ==
  /\ r \notin ended
  /\ blocking = NoConn
  /\ inputs < MaxInputs
  /\ inputs' = inputs + 1
  /\ ended' = ended \cup {r}
  /\ unit' = [NoUnit EXCEPT !.n = inputs + 1, !.kind = "end", !.room = r]
  /\ UNCHANGED <<rooms, pc, up, room_code, language_mode, cur, bc, inbox,
                 closeCode, blocking, fn_in, fn_out, hashable,
                 room_participants>>

Next ==
  \/ \E r \in RoomCodes : EndRoom(r)
  \/ \E user \in Users, r \in RoomCodes : JoinRoom(user, r)
  \/ \E user \in Users, r \in RoomCodes : LeaveRoom(user, r)
  \/ \E c \in Conn :
      \/ Open(c)
      \/ Connect(c)
      \/ ReceiveDisconnect(c)
      \/ ReceiveBytes(c)
      \/ ReceiveText(c)
      \/ TranscribeReturn(c)
      \/ TranslateReturn(c)
      \/ SynthReturn(c)
      \/ BroadcastNext(c)
      \/ SaveReturn(c)
      \/ Drop(c)

Spec == Init /\ [][Next]_vars

\* The event loop runs every task that is ready, and an awaited call of a
\* collaborator returns or raises in the end.  What clients and the room's
\* owner do (Open, ReceiveBytes, ReceiveText, Drop, EndRoom) is up to them.
\* Every task moves forward only, so a run in which the server's steps are
\* taken while one is possible is a run in which each task gets its turn.
ServerStep ==
  \E c \in Conn :
    \/ Connect(c)
    \/ ReceiveDisconnect(c)
    \/ TranscribeReturn(c)
    \/ TranslateReturn(c)
    \/ SynthReturn(c)
    \/ BroadcastNext(c)
    \/ SaveReturn(c)

Fairness == WF_vars(ServerStep)

\* The sessions and end_room without the membership requests: join_room
\* and leave_room write RoomParticipant rows only, which no step of a
\* session or of the connection manager reads.
NextLive ==
  \/ \E r \in RoomCodes : EndRoom(r)
  \/ \E c \in Conn :
      \/ Open(c)
      \/ Connect(c)
      \/ ReceiveDisconnect(c)
      \/ ReceiveBytes(c)
      \/ ReceiveText(c)
      \/ TranscribeReturn(c)
      \/ TranslateReturn(c)
      \/ SynthReturn(c)
      \/ BroadcastNext(c)
      \/ SaveReturn(c)
      \/ Drop(c)

SpecLive == Init /\ [][NextLive]_vars /\ Fairness

\* ------------------------------------------ language resolution alone
ConfGrid == {0, 100, 200, 300, 400, 499, 500, 501, 600, 700, 800, 900, 1000}

ResolveArgs == [mode : Modes, detected : Langs, confidence : ConfGrid]

InitResolve ==
  /\ rooms = <<>>
  /\ pc = [c \in Conn |-> "idle"]
  /\ up = [c \in Conn |-> TRUE]
  /\ room_code = [c \in Conn |-> "-"]
  /\ language_mode = [c \in Conn |-> "-"]
  /\ cur = [c \in Conn |-> NoCur]
  /\ bc = [c \in Conn |-> IdleIter]
  /\ inbox = [c \in Conn |-> EmptyBag]
  /\ closeCode = [c \in Conn |-> 0]
  /\ blocking = NoConn
  /\ inputs = 0
  /\ fn_in \in ResolveArgs
  /\ fn_out = NoResolved
  /\ hashable = FALSE
  /\ unit = NoUnit
  /\ ended = {}
  /\ room_participants = created_rooms

\* handler.py:176-193 followed by translation.py:57-59 on one utterance
Resolve ==
  /\ fn_out = NoResolved
  /\ fn_out' = resolve_languages(fn_in.mode, fn_in.detected,
                                 fn_in.confidence)
  /\ UNCHANGED <<rooms, pc, up, room_code, language_mode, cur, bc, inbox,
                 closeCode, blocking, inputs, fn_in, hashable, unit,
                 ended, room_participants>>

NextResolve == Resolve

SpecResolve == InitResolve /\ [][NextResolve]_vars

\* ================================================================ claims
Members(regs) == UNION {regs[r] : r \in DOMAIN regs}

Ended == {"closed", "crashed", "done"}

LoopStates ==
  {"recv", "transcribing", "translating", "synthesizing", "bc_result",
   "saving"}

\* copies of payload ev that client p has received by the given path
Copies(ib, p, ev, via) == CopiesIn([ev EXCEPT !.via = via], ib[p])

\* the broadcast_json call task c is suspended in ends with this step
Finishing(c) ==
  /\ bc[c].active
  /\ ~(bc'[c].active /\ bc'[c].ev = bc[c].ev /\ bc'[c].ctx = bc[c].ctx)

\* ... and it ends by the RuntimeError of the set iterator
Raising(c) == Finishing(c) /\ SetChanged(World, bc[c])

\* the sessions a finishing call of c had to reach: registered in the room
\* from its start to its end, not excluded, handler and transport alive
Reachable(c) ==
  {p \in bc[c].start \ {bc[c].exclude} :
     /\ p \in get_participant_list(rooms', bc[c].room)
     /\ up'[p]
     /\ pc'[p] \notin Ended}

LoopExit(c) == pc[c] \in LoopStates /\ pc'[c] \notin LoopStates

\* the translation_result events client p holds for utterance uid of task c
ResultsOf(ib, p, c, uid) ==
  {ev \in BagToSet(ib[p]) :
     ev.type = "translation_result" /\ ev.conn = c /\ ev.uid = uid}

\* the record task c has built from the locals k of its utterance
RecordOf(k, c) == result_data([cur |-> [d \in Conn |-> k]], c)

\* C4: whenever the receive loop of a session is left (transport gone, or
\* an exception while a unit is processed), that very step removes the
\* session from the registry and starts the broadcast of a user_left event,
\* with the roster of the sessions that remain, over exactly those sessions;
\* the handler ends at once only if nobody remains.  A user_left broadcast
\* that runs to its end has reached every remaining live session.
C4_TeardownIsUnconditional ==
  [][\A c \in Conn :
       /\ LoopExit(c) =>
            LET r == room_code[c]
                remaining == get_participant_list(rooms, r) \ {c}
            IN /\ pc'[c] \in {"bc_left", "done"}
               /\ c \notin Members(rooms')
               /\ pc'[c] = "done" => remaining = {}
               /\ pc'[c] = "bc_left" =>
                    /\ bc'[c].active
                    /\ bc'[c].room = r
                    /\ bc'[c].ev = Event("user_left", c, remaining, "-")
                    /\ bc'[c].start = remaining
                    /\ bc'[c].exclude = NoConn
                    /\ Cardinality(bc'[c].visited) = 1
                    /\ \A p \in bc'[c].visited \ bc'[c].disconnected :
                         Copies(inbox', p, bc'[c].ev, "bcast") = 1
       /\ (Finishing(c) /\ bc[c].ctx = "left" /\ ~Raising(c)) =>
            \A p \in Reachable(c) :
              Copies(inbox', p, bc[c].ev, "bcast") = 1]_vars

\* a session whose transport is fine has left its loop by an exception, is
\* out of the registry, and another session holds its user_left event
C4_Witness ==
  \E c \in Conn :
    /\ pc[c] = "done"
    /\ up[c]
    /\ c \notin Members(rooms)
    /\ \E d \in Conn \ {c} :
         \E ev \in BagToSet(inbox[d]) :
           ev.type = "user_left" /\ ev.conn = c

InExternalCall == {"transcribing", "translating", "synthesizing", "saving"}

OtherLang(l) == IF l = "hi" THEN "en" ELSE "hi"

\* C7: for every mode, detected language in {hi, en} and confidence, the
\* resolved pair is: base (hi, en) for hi_to_en and (en, hi) for en_to_hi;
\* the detected language replaces the source exactly when the confidence
\* is above 0.5 (500/1000), not at it; a target equal to the source becomes
\* the other language.  hi_to_en, detected en, 0.9 gives (en, hi).
C7_LanguageResolution ==
  (fn_out # NoResolved /\ fn_in.detected \in {"hi", "en"}) =>
    LET base_src == IF fn_in.mode = "hi_to_en" THEN "hi" ELSE "en"
        base_tgt == IF fn_in.mode = "hi_to_en" THEN "en" ELSE "hi"
        src == IF fn_in.confidence > 500 THEN fn_in.detected ELSE base_src
        tgt == IF src = base_tgt THEN OtherLang(base_tgt) ELSE base_tgt
    IN /\ fn_out = [src |-> src, tgt |-> tgt]
       /\ fn_in = [mode |-> "hi_to_en", detected |-> "en",
                   confidence |-> 900]
            => fn_out = [src |-> "en", tgt |-> "hi"]
       /\ fn_in.confidence = 500 => fn_out.src = base_src

C7_Witness ==
  /\ fn_in = [mode |-> "hi_to_en", detected |-> "en", confidence |-> 900]
  /\ fn_out = [src |-> "en", tgt |-> "hi"]

TranslationFailed(k) == k.translate_outcome \in {"none", "raise"}

\* C8: the step in which translate_text comes back from a translator that
\* raised or gave nothing goes on to synthesis of the transcribed text in
\* the resolved target language, with the registry untouched; the record
\* then built and broadcast carries the transcribed text as translated_text,
\* and so does every copy any client gets; the speaker gets it directly
\* when the broadcast returns, which it does unless the set iterator raises.
C8_TranslationFailureFallsBack ==
  [][\A c \in Conn :
       /\ pc[c] \in {"translating", "synthesizing"} =>
            pc'[c] \in {"translating", "synthesizing", "bc_result", "saving"}
       /\ (/\ pc[c] = "translating"
           /\ pc'[c] # "translating"
           /\ TranslationFailed(cur'[c])) =>
            /\ pc'[c] = "synthesizing"
            /\ cur'[c].translated_text = cur[c].original_text
            /\ cur'[c].tts_text = cur[c].original_text
            /\ cur'[c].tts_lang = cur'[c].tgt
            /\ cur'[c].tgt = resolve_languages(cur[c].rmode,
                               cur[c].detected_lang, cur[c].confidence).tgt
            /\ rooms' = rooms
            /\ inbox' = inbox
       /\ (/\ pc[c] = "synthesizing"
           /\ pc'[c] # "synthesizing"
           /\ TranslationFailed(cur[c])) =>
            /\ rooms' = rooms
            /\ pc'[c] = "bc_result" =>
                 /\ bc'[c].ev = RecordOf(cur'[c], c)
                 /\ bc'[c].ev.translated_text = cur[c].original_text
                 /\ bc'[c].start = get_participant_list(rooms, room_code[c])
                 /\ \A p \in bc'[c].visited \ bc'[c].disconnected :
                      Copies(inbox', p, bc'[c].ev, "bcast") = 1
       /\ (/\ pc[c] \in {"synthesizing", "bc_result"}
           /\ pc'[c] = "saving"
           /\ TranslationFailed(cur'[c])) =>
            /\ up'[c] =>
                 Copies(inbox', c, RecordOf(cur'[c], c), "direct") = 1
            /\ pc[c] = "bc_result" =>
                 \A p \in Reachable(c) :
                   Copies(inbox', p, bc[c].ev, "bcast") = 1
       /\ (/\ pc[c] = "bc_result"
           /\ TranslationFailed(cur[c])
           /\ pc'[c] \notin {"bc_result", "saving"}) => Raising(c)
       /\ TranslationFailed(cur'[c]) =>
            \A p \in Conn : \A ev \in ResultsOf(inbox', p, c, cur'[c].uid) :
              /\ ev.translated_text = ev.original_text
              /\ ev.original_text # ""]_vars

\* the translator raised for an utterance of c; another session holds its
\* result with the transcribed text as translation, the speaker holds it too
C8_Witness ==
  \E c \in Conn :
    /\ pc[c] = "saving"
    /\ cur[c].translate_outcome = "raise"
    /\ c \in Members(rooms)
    /\ Copies(inbox, c, RecordOf(cur[c], c), "direct") = 1
    /\ \E d \in Conn \ {c} :
         \E ev \in ResultsOf(inbox, d, c, cur[c].uid) :
           ev.translated_text = "hello" /\ ev.original_text = "hello"

\* C9: the step in which synthesize_speech comes back failed builds the
\* record with an empty audio_url and starts its broadcast over the room,
\* with the registry untouched; every copy any client gets has the empty
\* audio_url; the speaker gets it directly when the broadcast returns,
\* which it does unless the set iterator raises.
C9_SynthesisFailureGivesEmptyAudio ==
  [][\A c \in Conn :
       /\ pc[c] = "synthesizing" =>
            pc'[c] \in {"synthesizing", "bc_result", "saving"}
       /\ (/\ pc[c] = "synthesizing"
           /\ pc'[c] # "synthesizing"
           /\ cur'[c].tts_outcome = "fail") =>
            /\ cur'[c].audio_url = ""
            /\ rooms' = rooms
            /\ pc'[c] = "bc_result" =>
                 /\ bc'[c].ev = RecordOf(cur'[c], c)
                 /\ bc'[c].ev.type = "translation_result"
                 /\ bc'[c].ev.audio_url = ""
                 /\ bc'[c].room = room_code[c]
                 /\ bc'[c].exclude = NoConn
                 /\ bc'[c].start = get_participant_list(rooms, room_code[c])
                 /\ \A p \in bc'[c].visited \ bc'[c].disconnected :
                      Copies(inbox', p, bc'[c].ev, "bcast") = 1
       /\ (/\ pc[c] \in {"synthesizing", "bc_result"}
           /\ pc'[c] = "saving"
           /\ cur'[c].tts_outcome = "fail") =>
            /\ up'[c] =>
                 Copies(inbox', c, RecordOf(cur'[c], c), "direct") = 1
            /\ pc[c] = "bc_result" =>
                 \A p \in Reachable(c) :
                   Copies(inbox', p, bc[c].ev, "bcast") = 1
       /\ (/\ pc[c] = "bc_result"
           /\ cur[c].tts_outcome = "fail"
           /\ pc'[c] \notin {"bc_result", "saving"}) => Raising(c)
       /\ cur'[c].tts_outcome = "fail" =>
            \A p \in Conn : \A ev \in ResultsOf(inbox', p, c, cur'[c].uid) :
              ev.audio_url = ""]_vars

\* synthesis failed for an utterance of c; another session holds the result
\* by broadcast and the speaker by direct send, both with no audio
C9_Witness ==
  \E c \in Conn :
    /\ pc[c] = "saving"
    /\ cur[c].tts_outcome = "fail"
    /\ c \in Members(rooms)
    /\ Copies(inbox, c, RecordOf(cur[c], c), "direct") = 1
    /\ \E d \in Conn \ {c} :
         /\ Copies(inbox, d, RecordOf(cur[c], c), "bcast") = 1
         /\ RecordOf(cur[c], c).audio_url = ""
         /\ RecordOf(cur[c], c).translated_text # ""

Arrives(kind) == unit'.n # unit.n /\ unit'.kind = kind

\* C11: a binary frame shorter than 100 bytes starts no transcription,
\* translation, synthesis or persistence call (the session's position and
\* its utterance record do not move, the event loop is not blocked), sends
\* no event to anybody, leaves the registry, every broadcast and the
\* session's mode as they were, and the session is at its receive again;
\* a frame of exactly 100 bytes enters transcribe_audio.
C11_ShortFrameHasNoEffect ==
  [][Arrives("bytes") =>
       LET c == unit'.conn IN
       /\ pc[c] = "recv"
       /\ unit'.len < MinAudioBytes =>
            /\ UNCHANGED <<rooms, pc, cur, bc, inbox, language_mode,
                           blocking, closeCode, up>>
            /\ pc'[c] = "recv"
       /\ unit'.len >= MinAudioBytes =>
            /\ pc'[c] = "transcribing"
            /\ cur'[c].uid = unit'.n
            /\ blocking' = c
            /\ UNCHANGED <<rooms, inbox, language_mode>>]_vars

\* a registered session has just received a frame of 99 bytes and waits
\* for its next unit
C11_Witness ==
  /\ unit.kind = "bytes"
  /\ unit.len = MinAudioBytes - 1
  /\ pc[unit.conn] = "recv"
  /\ unit.conn \in Members(rooms)
  /\ inbox[unit.conn] # EmptyBag

\* what Whisper produced is empty: it failed, or its text is empty or blank
EmptyTranscription(o) == o.failed \/ o.text \in {"", " "}

\* C12: when transcribe_audio returns for a segment whose transcription is
\* empty or whitespace-only, or has failed inside the transcriber, the
\* session goes back to its receive without entering translate_text,
\* synthesize_speech or _save_message (no utterance record remains), no
\* client receives anything, no broadcast starts or moves, and the
\* registry still holds the session.
C12_EmptyTranscriptionEndsSegment ==
  [][\A c \in Conn :
       pc[c] = "transcribing" /\ pc'[c] # "transcribing" =>
         /\ unit'.conn = c /\ unit'.kind = "bytes"
         /\ IF EmptyTranscription(unit'.out)
              THEN /\ pc' = [pc EXCEPT ![c] = "recv"]
                   /\ cur' = [cur EXCEPT ![c] = NoCur]
                   /\ blocking' = NoConn
                   /\ UNCHANGED <<rooms, inbox, bc, language_mode, closeCode>>
                   /\ c \in Members(rooms) => c \in Members(rooms')
              ELSE /\ pc'[c] = "translating"
                   /\ cur'[c].original_text = unit'.out.text]_vars

\* the transcriber has failed on a segment of a registered session, which
\* waits for its next unit
C12_Witness ==
  /\ unit.kind = "bytes"
  /\ unit.len >= MinAudioBytes
  /\ unit.out # NoOut
  /\ unit.out.failed
  /\ pc[unit.conn] = "recv"
  /\ unit.conn \in Members(rooms)

NoUserFor(cred) == cred \in {"bad_token", "no_user"}

\* C14: a connection attempt whose authentication fails is closed with
\* code 4001; one that authenticates but names a room that is not active is
\* closed with code 4002, a different code; in both cases the step changes
\* neither the registry nor any client's inbox nor any broadcast, and a
\* closed attempt is in no room's set.
C14_FatalFailuresFailClosed ==
  [][/\ AuthFailedCode # RoomInvalidCode
     /\ Arrives("open") =>
          LET c == unit'.conn IN
          /\ NoUserFor(unit'.cred) =>
               /\ pc'[c] = "closed"
               /\ closeCode'[c] = AuthFailedCode
               /\ UNCHANGED <<rooms, inbox, bc, cur, language_mode>>
          /\ (~NoUserFor(unit'.cred) /\ ~unit'.room_active) =>
               /\ pc'[c] = "closed"
               /\ closeCode'[c] = RoomInvalidCode
               /\ UNCHANGED <<rooms, inbox, bc, cur, language_mode>>
     /\ \A c \in Conn :
          pc'[c] = "closed" =>
            /\ c \notin Members(rooms')
            /\ inbox'[c] = EmptyBag
            /\ closeCode'[c] \in {AuthFailedCode, RoomInvalidCode}]_vars

\* beside a registered session that holds its welcome, one attempt has been
\* closed for its credentials and another for its room
C14_Witness ==
  \E a, b, c \in Conn :
    /\ pc[a] = "closed" /\ closeCode[a] = AuthFailedCode
    /\ pc[b] = "closed" /\ closeCode[b] = RoomInvalidCode
    /\ pc[c] = "recv" /\ c \in Members(rooms) /\ inbox[c] # EmptyBag
    /\ room_code[a] = room_code[c]

\* C15: a connection attempt whose token is rejected, or names no user, or
\* names a user that is not active, is closed with the authentication
\* failure code in the step it arrives, and is never in a room's set.
C15_OnlyActiveUsersAuthenticate ==
  [][/\ Arrives("open") /\ unit'.cred # "ok" =>
          /\ pc'[unit'.conn] = "closed"
          /\ closeCode'[unit'.conn] = AuthFailedCode
     /\ \A c \in Conn :
          closeCode'[c] = AuthFailedCode => c \notin Members(rooms')]_vars

\* manager.connect and the welcome of task c end with this step
JoinDone(c) ==
  pc[c] \in {"connect", "bc_join"} /\ pc'[c] \notin {"connect", "bc_join"}

\* C16: after authentication and room validation, the step that runs
\* manager.connect puts the session in its room's set; when the join is
\* over the session is at its receive and registered, every session that
\* was in the room before it (and is still there, alive) has received once
\* a user_joined event whose roster holds the joiner, the joiner holds no
\* user_joined event of its own join, and the joiner holds a
\* connection_established event with its identity, its mode and a roster
\* that holds it.
C16_JoinIsAnnounced ==
  [][\A c \in Conn :
       /\ (pc[c] = "connect" /\ pc'[c] # "connect") =>
            c \in get_participant_list(rooms', room_code[c])
       /\ JoinDone(c) =>
            /\ pc'[c] = "recv"
            /\ c \in get_participant_list(rooms', room_code[c])
            /\ bc[c].active =>
                 /\ c \in bc[c].ev.participants
                 /\ \A p \in Reachable(c) :
                      Copies(inbox', p, bc[c].ev, "bcast") = 1
            /\ \A ev \in BagToSet(inbox'[c]) :
                 ~(ev.type = "user_joined" /\ ev.conn = c)
            /\ \E ev \in BagToSet(inbox'[c]) :
                 /\ ev.type = "connection_established"
                 /\ ev.conn = c
                 /\ ev.user_id = UserOf(c)
                 /\ ev.language_mode = language_mode[c]
                 /\ c \in ev.participants]_vars

\* the rooms whose set holds session c
RoomsOf(regs, c) == {r \in DOMAIN regs : c \in regs[r]}

\* C19: in every reachable state each session is in at most one room's
\* set, and that room is the one its connection was opened for.
C19_AtMostOneRoom ==
  \A c \in Conn :
    /\ Cardinality(RoomsOf(rooms, c)) <= 1
    /\ RoomsOf(rooms, c) \subseteq {room_code[c]}

\* both rooms have sessions, and one room has two
C19_Witness ==
  /\ DOMAIN rooms = RoomCodes
  /\ \A r \in RoomCodes : rooms[r] # {}
  /\ Cardinality(Members(rooms)) = Cardinality(Conn)

\* the rooms that have at least one registered session
LiveRooms(regs) == {r \in RoomCodes : get_participant_list(regs, r) # {}}

\* C20: in every reachable state no room key of the registry has an empty
\* set, and the active-room count is the number of rooms with a session.
C20_NoEmptyRoomEntry ==
  /\ \A r \in DOMAIN rooms : rooms[r] # {}
  /\ get_room_count(rooms) = Cardinality(LiveRooms(rooms))

Removed(regs, pcs, c) ==
  /\ hashable
  /\ pcs[c] \notin {"idle", "connect", "closed"}
  /\ c \notin get_participant_list(regs, room_code[c])

\* the events client p receives in this step
Delivered(p) ==
  {ev \in BagToSet(inbox'[p]) :
     CopiesIn(ev, inbox'[p]) > CopiesIn(ev, inbox[p])}

ControlArrives(type) ==
  Arrives("text") /\ unit'.msg.parse = "object" /\ unit'.msg.type = type

\* C21: a change_mode message with a legal mode sets the session's mode to
\* it and gives one mode_changed event with that mode to the session (if
\* its client is still there) and nothing to anybody else; a change_mode
\* with another mode value changes no mode and no inbox.  A session's mode
\* changes in no other step once it
\* has joined, and each utterance is resolved (when transcribe_audio
\* returns) with the mode the session has then.
C21_ChangeModeTakesEffect ==
  [][/\ ControlArrives("change_mode") =>
          LET c == unit'.conn
              m == unit'.msg.mode
              ack == [Event("mode_changed", c, {}, m) EXCEPT
                        !.uid = unit'.n, !.via = "direct"]
          IN /\ pc[c] = "recv" /\ pc' = pc /\ rooms' = rooms
             /\ m \in Modes =>
                  /\ language_mode' = [language_mode EXCEPT ![c] = m]
                  /\ inbox' = [inbox EXCEPT
                                ![c] = IF up[c] THEN @ (+) SetToBag({ack})
                                       ELSE @]
             /\ m \notin Modes \cup {"missing"} =>
                  UNCHANGED <<language_mode, inbox>>
     /\ \A c \in Conn :
          /\ (language_mode'[c] # language_mode[c] /\ pc[c] # "idle") =>
               /\ ControlArrives("change_mode")
               /\ unit'.conn = c
               /\ unit'.msg.mode = language_mode'[c]
          /\ (pc[c] = "transcribing" /\ pc'[c] = "translating") =>
               /\ cur'[c].src = handler_source_lang(language_mode[c],
                                  unit'.out.language, unit'.out.confidence)
               /\ cur'[c].tgt = mode_target_lang(language_mode[c])]_vars

\* a session that joined with hi_to_en has been switched to en_to_hi, holds
\* the acknowledgment, and its utterance after that is being translated
\* from English to Hindi
C21_Witness ==
  \E c \in Conn :
    /\ language_mode[c] = "en_to_hi"
    /\ \E ev \in BagToSet(inbox[c]) :
         /\ ev.type = "mode_changed" /\ ev.language_mode = "en_to_hi"
         /\ \E jn \in BagToSet(inbox[c]) :
              /\ jn.type = "connection_established"
              /\ jn.language_mode = "hi_to_en"
         /\ cur[c].uid > ev.uid
    /\ pc[c] = "translating"
    /\ cur[c].tgt = "hi"

\* the text frame is not a control message the handler knows: it does not
\* parse, or parses to something that is not an object, or is an object
\* whose type is neither change_mode nor ping
NotControl(m) ==
  \/ m.parse \in {"error", "array"}
  \/ m.parse = "object" /\ m.type \notin {"change_mode", "ping"}

Pipeline ==
  {"transcribing", "translating", "synthesizing", "bc_result", "saving"}

\* C23: within a session, transcription is invoked for the segments in the
\* order they were received.  Units arrive with increasing numbers; a step
\* invokes transcribe_audio for a session exactly when a segment of at
\* least 100 bytes arrives for it, and for that very segment; the segment a
\* session works on stays the same until its pipeline is over, and is never
\* later than the last unit received.
C23_SegmentsSubmittedInOrder ==
  [][/\ unit'.n >= unit.n
     /\ \A c \in Conn :
          /\ cur'[c].uid <= unit'.n
          /\ (pc'[c] = "transcribing" /\ pc[c] # "transcribing") =>
               /\ Arrives("bytes")
               /\ unit'.conn = c
               /\ unit'.n > unit.n
               /\ cur'[c].uid = unit'.n
               /\ cur[c].uid = 0
          /\ (Arrives("bytes") /\ unit'.conn = c
                /\ unit'.len >= MinAudioBytes) =>
               (pc[c] = "recv" /\ pc'[c] = "transcribing")
          /\ (pc[c] \in Pipeline /\ pc'[c] \in Pipeline) =>
               cur'[c].uid = cur[c].uid]_vars

\* a session that holds the result of an earlier segment of its own is
\* inside transcribe_audio with a later one
C23_Witness ==
  \E c \in Conn :
    /\ pc[c] = "transcribing"
    /\ cur[c].uid = unit.n
    /\ \E ev \in BagToSet(inbox[c]) :
         /\ ev.type = "translation_result"
         /\ ev.conn = c
         /\ ev.uid > 0
         /\ ev.uid < cur[c].uid

WelcomeSent(c) == JoinDone(c) /\ hashable /\ ~Raising(c)

\* the result broadcast of task c returns in this step and the speaker's
\* own copy is sent
ResultSent(c) ==
  /\ pc[c] \in {"synthesizing", "bc_result"}
  /\ pc'[c] \notin {"synthesizing", "bc_result"}
  /\ ~Raising(c)

\* a control message of task c is answered in this step
ReplySent(c) ==
  /\ unit'.conn = c
  /\ \/ ControlArrives("ping")
     \/ ControlArrives("change_mode") /\ unit'.msg.mode # "bogus"

\* the step keeps c registered unless the pruning loop of its own
\* broadcast discards it
StaysRegistered(c) ==
  (c \in Members(rooms) /\ c \notin bc[c].disconnected)
    => c \in Members(rooms')

\* C25: a direct send to a session whose client is gone does not raise,
\* does not take the session out of the registry and delivers nothing to
\* anybody: after a failed welcome the session is at its receive, after a
\* failed result copy it goes on to the save, after a failed acknowledgment
\* or pong it is at its receive with the registry as it was.
C25_FailedDirectSendIsHarmless ==
  [][\A c \in Conn :
       ~up[c] =>
         /\ WelcomeSent(c) =>
              /\ pc'[c] = "recv"
              /\ inbox' = inbox
              /\ StaysRegistered(c)
         /\ ResultSent(c) =>
              /\ pc'[c] = "saving"
              /\ inbox' = inbox
              /\ StaysRegistered(c)
         /\ ReplySent(c) =>
              /\ pc' = pc
              /\ inbox' = inbox
              /\ rooms' = rooms]_vars

\* a speaker whose client went away during the result broadcast has the
\* broadcast copy but not the direct one, is registered and saves
C25_Witness ==
  \E c \in Conn :
    /\ ~up[c]
    /\ pc[c] = "saving"
    /\ c \in Members(rooms)
    /\ Copies(inbox, c, RecordOf(cur[c], c), "bcast") = 1
    /\ Copies(inbox, c, RecordOf(cur[c], c), "direct") = 0

\* the translation_result events of speaker c that client p holds
ResultsFrom(ib, p, c) ==
  {ev \in BagToSet(ib[p]) : ev.type = "translation_result" /\ ev.conn = c}

C28_SourceDiffersFromTarget ==
  \A p, c \in Conn : \A ev \in ResultsFrom(inbox, p, c) :
    ev.source_language # ev.target_language

\* a listener holds the result of an utterance whose detected language,
\* taken as source with confidence above the threshold, is the target
\* language of the speaker's mode
C28_Witness ==
  \E p, c \in Conn :
    /\ p # c
    /\ pc[c] = "bc_result"
    /\ cur[c].confidence > ConfidenceThreshold
    /\ cur[c].detected_lang = mode_target_lang(cur[c].rmode)
    /\ cur[c].src = cur[c].detected_lang
    /\ Copies(inbox, p, result_data(World, c), "bcast") = 1

C32_OneUnitAtATime ==
  [][\A c \in Conn :
       /\ pc[c] \in Pipeline =>
            /\ ~(unit'.n # unit.n /\ unit'.conn = c)
            /\ language_mode'[c] = language_mode[c]
            /\ pc'[c] \in Pipeline =>
                 /\ cur'[c].uid = cur[c].uid
                 /\ cur'[c].rmode = cur[c].rmode
       /\ pc'[c] \in Pipeline =>
            /\ cur'[c].rmode = language_mode'[c]
            /\ (pc[c] = "recv") =>
                 /\ Arrives("bytes") /\ unit'.conn = c
                 /\ cur'[c].rmode = language_mode[c]
       /\ pc'[c] = "translating" =>
            /\ cur'[c].src = handler_source_lang(cur'[c].rmode,
                               cur'[c].detected_lang, cur'[c].confidence)
            /\ cur'[c].tgt = mode_target_lang(cur'[c].rmode)
       /\ pc'[c] \in {"synthesizing", "bc_result", "saving"} =>
            [src |-> cur'[c].src, tgt |-> cur'[c].tgt] =
              resolve_languages(cur'[c].rmode, cur'[c].detected_lang,
                                cur'[c].confidence)
       /\ \A p \in Conn : \A ev \in Delivered(p) :
            (ev.type = "translation_result" /\ ev.conn = c) =>
              /\ ev.uid = cur[c].uid
              /\ [src |-> ev.source_language, tgt |-> ev.target_language] =
                   resolve_languages(cur[c].rmode, cur[c].detected_lang,
                                     cur[c].confidence)]_vars

\* a session that spoke under hi_to_en holds the result of that utterance,
\* from Hindi to English, and the acknowledgment of a change to en_to_hi
\* that it sent afterwards
C32_Witness ==
  \E c \in Conn :
    /\ pc[c] = "recv"
    /\ language_mode[c] = "en_to_hi"
    /\ \E ev \in ResultsFrom(inbox, c, c) :
         /\ ev.source_language = "hi" /\ ev.target_language = "en"
         /\ \E ack \in BagToSet(inbox[c]) :
              /\ ack.type = "mode_changed"
              /\ ack.language_mode = "en_to_hi"
              /\ ack.uid > ev.uid

\* C33: in every reachable state the number of active participants of a
\* room is at most the room's max_participants.
C33_RoomNeverOverfull ==
  \A r \in RoomCodes :
    active_count(room_participants, r) <= MaxParticipants

\* C34: an ended room stays ended.  A join request that arrives for an
\* ended room finds no room and leaves the RoomParticipant rows and the
\* registry as they are; a connection attempt that arrives for an ended
\* room is closed in that step (4001 or 4002), with the registry, the rows
\* and every inbox unchanged, and a closed attempt is never registered.
\* No row of an ended room becomes active.
C34_EndedRoomStaysEnded ==
  [][/\ ended \subseteq ended'
     /\ \A r \in ended : \A u \in Users :
          room_participants'[r][u] = "active" =>
            room_participants[r][u] = "active"
     /\ (Arrives("join") /\ unit'.room \in ended) =>
          /\ ~unit'.room_active
          /\ UNCHANGED <<room_participants, rooms, pc, inbox>>
     /\ (Arrives("open") /\ room_code'[unit'.conn] \in ended) =>
          LET c == unit'.conn IN
          /\ pc'[c] = "closed"
          /\ closeCode'[c] =
               IF unit'.cred \in {"bad_token", "no_user"}
                 THEN AuthFailedCode ELSE RoomInvalidCode
          /\ UNCHANGED <<room_participants, rooms, inbox, bc>>
     /\ \A c \in Conn :
          pc[c] = "closed" => pc'[c] = "closed" /\ c \notin Members(rooms')
    ]_vars

\* after room r was ended, a connection attempt with a valid token was
\* closed with 4002 and a join request of a participant who had left it
\* has arrived; the participant's row is still inactive
C34_Witness ==
  \E c \in Conn :
    /\ unit.kind = "join"
    /\ unit.room \in ended
    /\ room_participants[unit.room][unit.user] = "inactive"
    /\ pc[c] = "closed"
    /\ closeCode[c] = RoomInvalidCode
    /\ room_code[c] = unit.room

====
